---- MODULE Spec2Model ----
(***************************************************************************)
(* Gear ratio calculator (src/src/app.rs): two tooth counts, a given      *)
(* ratio, a derived actual ratio and one locked column.  The numeric      *)
(* fields are u32 and f32; f32 arithmetic is modelled bit-exactly         *)
(* (24-bit significand, round to nearest even) because the rounding of    *)
(* products and quotients decides which tooth count is computed.          *)
(***************************************************************************)
EXTENDS Integers, Sequences, FiniteSets, TLC

(***************************************************************************)
(* f32 values.  A finite non-zero value is m * 2^e with 2^23 <= m < 2^24. *)
(* Only non-negative values occur: the tooth counts are unsigned and the  *)
(* ratio inputs of the model are non-negative decimals.  All values of    *)
(* the model lie far inside the normal exponent range, so subnormals and  *)
(* overflow to infinity by rounding are not represented.                  *)
(***************************************************************************)
Pow2(n) == 2^n

FZero == [k |-> "num", m |-> 0, e |-> 0]

FInf == [k |-> "inf", m |-> 0, e |-> 0]

FNaN == [k |-> "nan", m |-> 0, e |-> 0]

IsNum(a) == a.k = "num"

IsZero(a) == a.k = "num" /\ a.m = 0

RECURSIVE BitLen(_)
BitLen(n) == IF n = 0 THEN 0 ELSE 1 + BitLen(n \div 2)

\* The f32 nearest to (m + s) * 2^e, where 0 < s < 1 if sticky and s = 0
\* otherwise; ties go to the even significand.  0 < m < 2^31, and
\* m >= 2^24 whenever sticky.
RoundNE(m, e, sticky) ==
    LET len == BitLen(m)
    IN  IF len <= 24
        THEN [k |-> "num", m |-> m * Pow2(24 - len), e |-> e - (24 - len)]
        ELSE LET sh   == len - 24
                 q    == m \div Pow2(sh)
                 r    == m % Pow2(sh)
                 half == Pow2(sh - 1)
                 up   == \/ r > half
                         \/ r = half /\ (sticky \/ q % 2 = 1)
                 q2   == IF up THEN q + 1 ELSE q
             IN  IF q2 = Pow2(24)
                 THEN [k |-> "num", m |-> Pow2(23), e |-> e + sh + 1]
                 ELSE [k |-> "num", m |-> q2, e |-> e + sh]

\* `n as f32` for an unsigned integer n < 2^31.
FromU32(n) == IF n = 0 THEN FZero ELSE RoundNE(n, 0, FALSE)

\* a * b, correctly rounded.  The 48-bit product of the significands is
\* formed from 12-bit halves as hi * 2^24 + lo.
FMul(a, b) ==
    IF a.k = "nan" \/ b.k = "nan" THEN FNaN
    ELSE IF a.k = "inf" \/ b.k = "inf"
         THEN (IF IsZero(a) \/ IsZero(b) THEN FNaN ELSE FInf)
    ELSE IF IsZero(a) \/ IsZero(b) THEN FZero
    ELSE LET a1  == a.m \div Pow2(12)
             a0  == a.m % Pow2(12)
             b1  == b.m \div Pow2(12)
             b0  == b.m % Pow2(12)
             mid == a1 * b0 + a0 * b1
             t   == (mid % Pow2(12)) * Pow2(12) + a0 * b0
             lo  == t % Pow2(24)
             hi  == a1 * b1 + mid \div Pow2(12) + t \div Pow2(24)
         IN  RoundNE(hi * Pow2(6) + lo \div Pow2(18), a.e + b.e + 18,
                     lo % Pow2(18) # 0)

\* n more quotient bits of r / d by long division: <<quotient, remainder>>.
RECURSIVE DivBits(_, _, _, _)
DivBits(r, d, n, q) ==
    IF n = 0 THEN <<q, r>>
    ELSE IF 2 * r >= d THEN DivBits(2 * r - d, d, n - 1, 2 * q + 1)
         ELSE DivBits(2 * r, d, n - 1, 2 * q)

\* a / b, correctly rounded.
FDiv(a, b) ==
    IF a.k = "nan" \/ b.k = "nan" THEN FNaN
    ELSE IF a.k = "inf" THEN (IF b.k = "inf" THEN FNaN ELSE FInf)
    ELSE IF b.k = "inf" THEN FZero
    ELSE IF IsZero(b) THEN (IF IsZero(a) THEN FNaN ELSE FInf)
    ELSE IF IsZero(a) THEN FZero
    ELSE LET qr == DivBits(a.m % b.m, b.m, 26, a.m \div b.m)
         IN  RoundNE(qr[1], a.e - b.e - 26, qr[2] # 0)

\* a >= b, a > b and a == b as f32 comparisons (false when either is NaN).
FGe(a, b) ==
    IF a.k = "nan" \/ b.k = "nan" THEN FALSE
    ELSE IF a.k = "inf" THEN TRUE
    ELSE IF b.k = "inf" THEN FALSE
    ELSE IF IsZero(b) THEN TRUE
    ELSE IF IsZero(a) THEN FALSE
    ELSE a.e > b.e \/ (a.e = b.e /\ a.m >= b.m)

FEq(a, b) == a.k # "nan" /\ b.k # "nan" /\ a = b

FGt(a, b) == FGe(a, b) /\ ~FEq(a, b)

\* a + b, correctly rounded (a, b >= 0).  The smaller operand is aligned
\* with five extra bits and a sticky bit.
FAdd(a, b) ==
    IF a.k = "nan" \/ b.k = "nan" THEN FNaN
    ELSE IF a.k = "inf" \/ b.k = "inf" THEN FInf
    ELSE IF IsZero(a) THEN b
    ELSE IF IsZero(b) THEN a
    ELSE LET x == IF a.e >= b.e THEN a ELSE b
             y == IF a.e >= b.e THEN b ELSE a
             d == x.e - y.e
         IN  IF d > 26 THEN x
             ELSE RoundNE(x.m * 32 + (y.m * 32) \div Pow2(d), x.e - 5,
                          (y.m * 32) % Pow2(d) # 0)

\* a - b, correctly rounded, for finite a >= b >= 0.
FSub(a, b) ==
    IF IsZero(b) THEN a
    ELSE IF a = b THEN FZero
    ELSE LET d == a.e - b.e
         IN  IF d > 26 THEN a
             ELSE LET bq == (b.m * 32) \div Pow2(d)
                      st == (b.m * 32) % Pow2(d) # 0
                  IN  IF st THEN RoundNE(a.m * 32 - bq - 1, a.e - 5, TRUE)
                      ELSE RoundNE(a.m * 32 - bq, a.e - 5, FALSE)

(***************************************************************************)
(* f32::round (halves away from zero) followed by `as u32` (saturating,   *)
(* NaN to 0), as in compute_l_teeth and compute_r_teeth.  TLC's integers  *)
(* end below u32::MAX: Saturated stands for every result of 2^30 or more, *)
(* and the actions keep the tooth counts below it.                        *)
(***************************************************************************)
Saturated == Pow2(30)

\* Faulty variants of RoundAsU32, for the sensitivity of the properties:
\* rounding up, `as u32` without round(), and ties rounded to the even
\* integer.
CeilAsU32(a) ==
    IF a.k = "nan" \/ IsZero(a) THEN 0
    ELSE IF a.k = "inf" THEN Saturated
    ELSE IF a.e >= 0
         THEN (IF a.e >= 7 THEN Saturated ELSE a.m * Pow2(a.e))
    ELSE IF -a.e >= 24 THEN 1
    ELSE IF a.m % Pow2(-a.e) = 0 THEN a.m \div Pow2(-a.e)
    ELSE (a.m \div Pow2(-a.e)) + 1

TruncAsU32(a) ==
    IF a.k = "nan" \/ IsZero(a) THEN 0
    ELSE IF a.k = "inf" THEN Saturated
    ELSE IF a.e >= 0
         THEN (IF a.e >= 7 THEN Saturated ELSE a.m * Pow2(a.e))
    ELSE IF -a.e >= 24 THEN 0
    ELSE a.m \div Pow2(-a.e)

RoundHalfEvenAsU32(a) ==
    IF a.k = "nan" \/ IsZero(a) THEN 0
    ELSE IF a.k = "inf" THEN Saturated
    ELSE IF a.e >= 0
         THEN (IF a.e >= 7 THEN Saturated ELSE a.m * Pow2(a.e))
    ELSE IF -a.e > 24 THEN 0
    ELSE LET s == -a.e
             q == a.m \div Pow2(s)
             r == a.m % Pow2(s)
         IN  IF 2 * r > Pow2(s) \/ (2 * r = Pow2(s) /\ q % 2 = 1)
             THEN q + 1 ELSE q

RoundAsU32(a) ==
    IF a.k = "nan" THEN 0
    ELSE IF a.k = "inf" THEN Saturated
    ELSE IF IsZero(a) THEN 0
    ELSE IF a.e >= 0
         THEN (IF a.e >= 7 THEN Saturated ELSE a.m * Pow2(a.e))
    ELSE IF -a.e > 24 THEN 0
    ELSE LET s == -a.e
             q == a.m \div Pow2(s)
             r == a.m % Pow2(s)
         IN  IF 2 * r >= Pow2(s) THEN q + 1 ELSE q

(***************************************************************************)
(* Text.  A string is a sequence of one-character strings.                *)
(***************************************************************************)
DigitChars == <<"0", "1", "2", "3", "4", "5", "6", "7", "8", "9">>

IsDigit(c) == \E i \in 1..10 : DigitChars[i] = c

DigitVal(c) == (CHOOSE i \in 1..10 : DigitChars[i] = c) - 1

AllDigits(s) == \A i \in 1..Len(s) : IsDigit(s[i])

RECURSIVE DigitsVal(_)
DigitsVal(s) ==
    IF Len(s) = 0 THEN 0
    ELSE 10 * DigitsVal(SubSeq(s, 1, Len(s) - 1)) + DigitVal(s[Len(s)])

\* u32::to_string; also format!("{:.0}", n) for an integer n, where the
\* precision is ignored.
RECURSIVE U32ToString(_)
U32ToString(n) ==
    IF n < 10 THEN <<DigitChars[n + 1]>>
    ELSE Append(U32ToString(n \div 10), DigitChars[(n % 10) + 1])

Ok(x) == [ok |-> TRUE, v |-> x]

Err == [ok |-> FALSE, v |-> 0]

\* str::parse::<u32>: one or more decimal digits (texts of at most nine
\* digits, so the value fits).
IsU32Text(s) == Len(s) >= 1 /\ Len(s) <= 9 /\ AllDigits(s)

ParseU32(s) == IF IsU32Text(s) THEN Ok(DigitsVal(s)) ELSE Err

\* str::parse::<f32> on the texts of the model: digits with at most one
\* ".", at least one digit; the value is the f32 nearest to the decimal.
\* With at most seven digits both the digits' value and the power of ten
\* are exact in f32, so the correctly rounded quotient is that f32.
DotPos(s) == IF \E i \in 1..Len(s) : s[i] = "."
             THEN CHOOSE i \in 1..Len(s) : s[i] = "."
             ELSE Len(s) + 1

IntPart(s) == SubSeq(s, 1, DotPos(s) - 1)

FracPart(s) == SubSeq(s, DotPos(s) + 1, Len(s))

IsF32Text(s) ==
    /\ AllDigits(IntPart(s)) /\ AllDigits(FracPart(s))
    /\ Len(IntPart(s)) + Len(FracPart(s)) >= 1
    /\ Len(IntPart(s)) + Len(FracPart(s)) <= 7

ParseF32(s) ==
    IF IsF32Text(s)
    THEN Ok(FDiv(FromU32(DigitsVal(IntPart(s) \o FracPart(s))),
                 FromU32(10 ^ Len(FracPart(s)))))
    ELSE Err

RECURSIVE ZeroPad(_, _)
ZeroPad(s, n) == IF Len(s) >= n THEN s ELSE ZeroPad(<<"0">> \o s, n)

\* format!("{:.p$}", a) for an f32 a and 1 <= p <= 3: the decimal nearest
\* to a with p fraction digits, ties to the even last digit.  a = m * 2^e
\* is split into its integer part and the fraction fm / 2^s.
IntOf(a) ==
    IF IsZero(a) THEN 0
    ELSE IF a.e >= 0 THEN a.m * Pow2(a.e)
    ELSE IF -a.e > 30 THEN 0
    ELSE a.m \div Pow2(-a.e)

FracOf(a) ==
    IF IsZero(a) \/ a.e >= 0 THEN 0
    ELSE IF -a.e > 30 THEN a.m
    ELSE a.m % Pow2(-a.e)

\* The integer nearest to (fm / 2^s) * 10^p, ties to even.
ScaledFrac(fm, s, p) ==
    LET mm == fm * (5 ^ p)
        t  == s - p
    IN  IF t <= 0 THEN mm * Pow2(-t)
        ELSE IF t >= 32 THEN 0
        ELSE IF t = 31 THEN (IF mm > Pow2(30) THEN 1 ELSE 0)
        ELSE LET q    == mm \div Pow2(t)
                 r    == mm % Pow2(t)
                 half == Pow2(t - 1)
             IN  IF r > half \/ (r = half /\ q % 2 = 1) THEN q + 1 ELSE q

DecimalText(ip, fs, p) ==
    U32ToString(ip + fs \div (10 ^ p)) \o <<".">>
        \o ZeroPad(U32ToString(fs % (10 ^ p)), p)

\* Values of 2^30 or more are outside the model (see Saturated).
FormatF32(a, p) ==
    IF a.k = "nan" THEN <<"N", "a", "N">>
    ELSE IF a.k = "inf" THEN <<"i", "n", "f">>
    ELSE IF a.e >= 7 THEN <<"#">>
    ELSE DecimalText(IntOf(a), ScaledFrac(FracOf(a), -a.e, p), p)

(***************************************************************************)
(* enum Column and Column::get_missing.                                    *)
(***************************************************************************)
Left == 1

Ratio == 2

Right == 4

Columns == {Left, Ratio, Right}

RECURSIVE BitOr(_, _)
BitOr(x, y) ==
    IF x = 0 THEN y
    ELSE IF y = 0 THEN x
    ELSE 2 * BitOr(x \div 2, y \div 2) + (IF x % 2 = 1 \/ y % 2 = 1 THEN 1 ELSE 0)

\* (!i) & 0b111: the complement of the low three bits.
NotLow3(i) == 7 - (i % 8)

\* FromPrimitive::from_u32 of the derived impl: Some for a discriminant.
ColumnFromU32(i) == IF i \in Columns THEN Ok(i) ELSE Err

\* Faulty variants of get_missing: the complement forgotten, and the
\* second argument returned.
get_missing_nomask(c1, c2) ==
    IF c1 = c2 THEN Err ELSE ColumnFromU32(BitOr(c1, c2))

get_missing_second(c1, c2) ==
    IF c1 = c2 THEN Err ELSE Ok(c2)

\* Err stands for the panic of assert_ne! or of unwrap on None.
get_missing(c1, c2) ==
    IF c1 = c2 THEN Err
    ELSE ColumnFromU32(NotLow3(BitOr(c1, c2)))

(***************************************************************************)
(* RitzelApp: the value of the struct is a record; the methods are        *)
(* operators from the record before the call to the record after it.      *)
(***************************************************************************)
SideVars_new(teeth) == [teeth |-> teeth, t_str |-> U32ToString(teeth)]

\* The literal 1.5 and 1.5.to_string().
OnePointFive == FDiv(FromU32(3), FromU32(2))

RitzelApp_new ==
    [left          |-> SideVars_new(10),
     right         |-> SideVars_new(15),
     given_ratio   |-> OnePointFive,
     actual_ratio  |-> OnePointFive,
     ar_str        |-> <<"1", ".", "5">>,
     gr_str        |-> <<"1", ".", "5">>,
     locked_column |-> Ratio]

compute_ratio(a) ==
    LET ar == FDiv(FromU32(a.right.teeth), FromU32(a.left.teeth))
    IN  [a EXCEPT !.actual_ratio = ar, !.ar_str = FormatF32(ar, 3)]

\* Faulty variant of compute_l_teeth: a product in place of the quotient.
compute_l_teeth_times(a) ==
    LET lt == FMul(FromU32(a.right.teeth), a.given_ratio)
        t  == RoundAsU32(lt)
    IN  compute_ratio([a EXCEPT !.left = [teeth |-> t, t_str |-> U32ToString(t)]])

\* Faulty variant of compute_l_teeth: the given ratio is overwritten by the
\* actual one.
compute_l_teeth_snap(a) ==
    LET lt == FDiv(FromU32(a.right.teeth), a.given_ratio)
        t  == RoundAsU32(lt)
        b  == compute_ratio([a EXCEPT !.left = [teeth |-> t, t_str |-> U32ToString(t)]])
    IN  [b EXCEPT !.given_ratio = b.actual_ratio]

compute_l_teeth(a) ==
    LET lt == FDiv(FromU32(a.right.teeth), a.given_ratio)
        t  == RoundAsU32(lt)
    IN  compute_ratio([a EXCEPT !.left = [teeth |-> t, t_str |-> U32ToString(t)]])

\* Faulty variant of compute_r_teeth: the product is taken from the right
\* gear's own count.
compute_r_teeth_own(a) ==
    LET rt == FMul(FromU32(a.right.teeth), a.given_ratio)
        t  == RoundAsU32(rt)
    IN  compute_ratio([a EXCEPT !.right = [teeth |-> t, t_str |-> U32ToString(t)]])

\* Faulty variant of compute_r_teeth: compute_ratio is not called.
compute_r_teeth_stale(a) ==
    LET rt == FMul(FromU32(a.left.teeth), a.given_ratio)
        t  == RoundAsU32(rt)
    IN  [a EXCEPT !.right = [teeth |-> t, t_str |-> U32ToString(t)]]

compute_r_teeth(a) ==
    LET rt == FMul(FromU32(a.left.teeth), a.given_ratio)
        t  == RoundAsU32(rt)
    IN  compute_ratio([a EXCEPT !.right = [teeth |-> t, t_str |-> U32ToString(t)]])

\* [app, panic]: the struct after the call, and whether get_missing panicked
\* (the struct is then as it was at the call).
recompute_from(a, column) ==
    LET c == get_missing(column, a.locked_column)
    IN  IF ~c.ok THEN [app |-> a, panic |-> TRUE]
        ELSE IF c.v = Left THEN [app |-> compute_l_teeth(a), panic |-> FALSE]
        ELSE IF c.v = Ratio THEN [app |-> compute_ratio(a), panic |-> FALSE]
        ELSE [app |-> compute_r_teeth(a), panic |-> FALSE]

(***************************************************************************)
(* number_spinner<T>, for T = u32 (the gear columns) and T = f32 (the     *)
(* given ratio).  One frame handles one kind of input of one widget:      *)
(* a scroll/drag delta, or the text field's changed / lost_focus flags.   *)
(* state.offset is an f32 that only ever holds sums of the deltas; the    *)
(* deltas of the model are small integers, whose sums are exact in f32,   *)
(* so the offset is an integer here.                                      *)
(***************************************************************************)
StepThreshold == 20

\* The literal 0.00001 as an f32.
Epsilon == FDiv(FromU32(1), FromU32(100000))

\* <u32 as FromPrimitive>::from_f32: truncation toward zero.
U32FromF32(a) ==
    IF a.k # "num" \/ IsZero(a) THEN 0
    ELSE IF a.e >= 0 THEN (IF a.e >= 7 THEN Saturated ELSE a.m * Pow2(a.e))
    ELSE IF -a.e >= 24 THEN 0
    ELSE a.m \div Pow2(-a.e)

clamp_max_u32(input, max) == IF input > max THEN max ELSE input

clamp_max_f32(input, max) == IF FGt(input, max) THEN max ELSE input

\* Faulty variant of scroll_u32: the offset is kept after a step.
scroll_u32_keep(value, offset, delta, step, min_value, max_value) ==
    LET o == offset + delta
    IN  IF o > StepThreshold
        THEN [value   |-> clamp_max_u32(value + step, max_value),
              offset  |-> o, changed |-> TRUE]
        ELSE IF o < -StepThreshold
        THEN [value   |-> IF value >= min_value + step - U32FromF32(Epsilon)
                          THEN value - step ELSE value,
              offset  |-> o, changed |-> TRUE]
        ELSE [value |-> value, offset |-> o, changed |-> FALSE]

\* Lines 121-138 for T = u32: [value, offset, changed].
scroll_u32(value, offset, delta, step, min_value, max_value) ==
    LET o == offset + delta
    IN  IF o > StepThreshold
        THEN [value   |-> clamp_max_u32(value + step, max_value),
              offset  |-> 0, changed |-> TRUE]
        ELSE IF o < -StepThreshold
        THEN [value   |-> IF value >= min_value + step - U32FromF32(Epsilon)
                          THEN value - step ELSE value,
              offset  |-> 0, changed |-> TRUE]
        ELSE [value |-> value, offset |-> o, changed |-> FALSE]

\* Lines 121-138 for T = f32.
scroll_f32(value, offset, delta, step, min_value, max_value) ==
    LET o == offset + delta
    IN  IF o > StepThreshold
        THEN [value   |-> clamp_max_f32(FAdd(value, step), max_value),
              offset  |-> 0, changed |-> TRUE]
        ELSE IF o < -StepThreshold
        THEN [value   |-> IF FGe(value, FSub(FAdd(min_value, step), Epsilon))
                          THEN FSub(value, step) ELSE value,
              offset  |-> 0, changed |-> TRUE]
        ELSE [value |-> value, offset |-> o, changed |-> FALSE]

\* Lines 172-183 for T = u32, given the text field's text after this
\* frame's typing and its two flags: [value, val_str, changed].
text_entry_u32(value, val_str, lost_focus, te_changed) ==
    LET s1 == IF lost_focus /\ ~ParseU32(val_str).ok
              THEN U32ToString(value) ELSE val_str
        x  == ParseU32(s1)
    IN  IF te_changed /\ x.ok
        THEN [value |-> x.v, val_str |-> s1, changed |-> TRUE]
        ELSE [value |-> value, val_str |-> s1, changed |-> FALSE]

\* Lines 172-183 for T = f32 (precision 2).
text_entry_f32(value, val_str, lost_focus, te_changed) ==
    LET s1 == IF lost_focus /\ ~ParseF32(val_str).ok
              THEN FormatF32(value, 2) ELSE val_str
        x  == ParseF32(s1)
    IN  IF te_changed /\ x.ok
        THEN [value |-> x.v, val_str |-> s1, changed |-> TRUE]
        ELSE [value |-> value, val_str |-> s1, changed |-> FALSE]

\* Faulty variant of interactive: the locked field stays interactive.
interactive_always(column, locked_column) == TRUE

\* The `interactive` argument of number_spinner.
interactive(column, locked_column) == column # locked_column

(***************************************************************************)
(* The arguments gear_column and ratio_column pass to number_spinner.     *)
(***************************************************************************)
GearStep == 1

GearMin == 1

GearMax == 100000

RatioStep == FDiv(FromU32(1), FromU32(10))

RatioMin == FDiv(FromU32(1), FromU32(10))

RatioMax == FromU32(100)

\* What one frame brings to one number_spinner: the scroll/drag delta (0 for
\* none), whether typing changed the text and to what, and lost focus.
NoInput == [delta |-> 0, te_changed |-> FALSE, text |-> <<>>, lost_focus |-> FALSE]

\* The scroll/drag part of number_spinner (lines 100-145) for T = u32.
spinner_scroll_u32(value, offset, inter, in, step, min_value, max_value) ==
    IF inter /\ in.delta # 0
    THEN scroll_u32(value, offset, in.delta, step, min_value, max_value)
    ELSE [value |-> value, offset |-> offset, changed |-> FALSE]

spinner_scroll_f32(value, offset, inter, in, step, min_value, max_value) ==
    IF inter /\ in.delta # 0
    THEN scroll_f32(value, offset, in.delta, step, min_value, max_value)
    ELSE [value |-> value, offset |-> offset, changed |-> FALSE]

\* What number_spinner leaves and returns, from its scroll part sc and its
\* text part te: [value, val_str, offset, changed].
spinner_result(sc, te) ==
    [value |-> te.value, val_str |-> te.val_str, offset |-> sc.offset,
     changed |-> sc.changed \/ te.changed]

\* spinner_text_u32_stale is a faulty variant of spinner_text_u32: a step
\* does not rewrite the text.
\* The text part of number_spinner after the scroll part sc: a step
\* rewrites the text (lines 141-143), then the TextEdit takes the typing,
\* if it is interactive (line 148).
spinner_text_u32_stale(sc, val_str, typed, in) ==
    spinner_result(sc,
        text_entry_u32(sc.value, IF typed THEN in.text ELSE val_str,
                       in.lost_focus, typed))

spinner_text_u32(sc, val_str, typed, in) ==
    spinner_result(sc,
        text_entry_u32(sc.value,
                       IF typed THEN in.text
                       ELSE IF sc.changed THEN U32ToString(sc.value)
                       ELSE val_str,
                       in.lost_focus, typed))

spinner_text_f32(sc, val_str, typed, in) ==
    spinner_result(sc,
        text_entry_f32(sc.value,
                       IF typed THEN in.text
                       ELSE IF sc.changed THEN FormatF32(sc.value, 2)
                       ELSE val_str,
                       in.lost_focus, typed))

\* number_spinner for T = u32, precision 0.
number_spinner_u32(value, val_str, offset, inter, in, step, min_value, max_value) ==
    spinner_text_u32(
        spinner_scroll_u32(value, offset, inter, in, step, min_value, max_value),
        val_str, inter /\ in.te_changed, in)

\* number_spinner for T = f32, precision 2.
number_spinner_f32(value, val_str, offset, inter, in, step, min_value, max_value) ==
    spinner_text_f32(
        spinner_scroll_f32(value, offset, inter, in, step, min_value, max_value),
        val_str, inter /\ in.te_changed, in)

\* Faulty variant of selectable_value: a click also recomputes the right
\* gear.
selectable_value_recompute(a, column, click) ==
    IF click THEN compute_r_teeth([a EXCEPT !.locked_column = column]) ELSE a

\* selectable_value(&mut self.locked_column, column, "locked").
selectable_value(a, column, click) ==
    IF click THEN [a EXCEPT !.locked_column = column] ELSE a

\* `vars` of gear_column (lines 237-240), and the struct with the
\* spinner's value and text stored in it.
SideOf(a, column) == IF column = Left THEN a.left ELSE a.right

SetSide(a, column, sp) ==
    IF column = Left
    THEN [a EXCEPT !.left = [teeth |-> sp.value, t_str |-> sp.val_str]]
    ELSE [a EXCEPT !.right = [teeth |-> sp.value, t_str |-> sp.val_str]]

SetRatio(a, sp) == [a EXCEPT !.given_ratio = sp.value, !.gr_str = sp.val_str]

\* Faulty variant of recompute_if: recompute_from is never called.
recompute_if_never(changed, a1, column) == [app |-> a1, panic |-> FALSE]

\* `if changed { self.recompute_from(column) }` on the struct a1.
recompute_if(changed, a1, column) ==
    IF changed THEN recompute_from(a1, column)
    ELSE [app |-> a1, panic |-> FALSE]

\* The end of a column's frame, after the spinner sp and the recompute
\* rc: the "locked" toggle, unless a panic has ended the frame.
column_result(rc, off, column, click, sp) ==
    [app     |-> IF rc.panic THEN rc.app
                 ELSE selectable_value(rc.app, column, click),
     offset  |-> [off EXCEPT ![column] = sp.offset],
     panic   |-> rc.panic,
     changed |-> sp.changed]

column_after_spinner(a1, off, column, click, sp) ==
    column_result(recompute_if(sp.changed, a1, column), off, column, click, sp)

gear_after_spinner(a, off, column, click, sp) ==
    column_after_spinner(SetSide(a, column, sp), off, column, click, sp)

ratio_after_spinner(a, off, click, sp) ==
    column_after_spinner(SetRatio(a, sp), off, Ratio, click, sp)

\* One frame of gear_column: [app, offset, panic, changed].
gear_column(a, off, column, in, click) ==
    gear_after_spinner(a, off, column, click,
        number_spinner_u32(SideOf(a, column).teeth, SideOf(a, column).t_str,
                           off[column], interactive(column, a.locked_column),
                           in, GearStep, GearMin, GearMax))

\* One frame of ratio_column.
ratio_column(a, off, in, click) ==
    ratio_after_spinner(a, off, click,
        number_spinner_f32(a.given_ratio, a.gr_str, off[Ratio],
                           interactive(Ratio, a.locked_column),
                           in, RatioStep, RatioMin, RatioMax))

\* RitzelApp::update with input for one column only.
update(a, off, column, in, click) ==
    IF column = Ratio THEN ratio_column(a, off, in, click)
    ELSE gear_column(a, off, column, in, click)

(***************************************************************************)
(* The state machine.                                                      *)
(***************************************************************************)
VARIABLES
    app,        \* the RitzelApp
    offset,     \* NumberSpinnerState.offset of each column's spinner
    panicked,   \* recompute_from's assert_ne! (or unwrap) has failed
    events,     \* the number of events handled
    last,       \* history: the last event, [op, col, free, changed, in, off]
    pre         \* history: the RitzelApp before the last event

vars == <<app, offset, panicked, events, last, pre>>

\* Spec runs at most MaxEvents events from RitzelApp::new.
MaxEvents == 4

\* Bounds of the initial states of SpecCore.
MaxCoreTeeth == 20

MaxCoreTenths == 30

\* Bounds of the initial states of SpecStep.
MaxStepTeeth == 3

MaxStepTenths == 8

\* Scroll and drag deltas, below and above the step threshold, and the
\* partial sums they leave in an offset.
Deltas == {-45, -15, 15, 45}

PartialOffsets == {-15, 15}

GearTexts == {<<"0">>, <<"7">>, <<"x">>}

RatioTexts == {<<"0">>, <<"2", ".", "0">>, <<"x">>}

Texts(column) == IF column = Ratio THEN RatioTexts ELSE GearTexts

Tenths(n) == FDiv(FromU32(n), FromU32(10))

TeethOf(a, column) == IF column = Left THEN a.left.teeth ELSE a.right.teeth

\* The text of a column's field does not parse: it was typed and the field
\* still has the focus.
Pending(a, column) ==
    IF column = Ratio THEN ~IsF32Text(a.gr_str)
    ELSE IF column = Left THEN ~IsU32Text(a.left.t_str)
    ELSE ~IsU32Text(a.right.t_str)

NoEvent ==
    [op |-> "init", col |-> Ratio, free |-> 0, changed |-> FALSE,
     in |-> NoInput, off |-> [c \in Columns |-> 0]]

\* free is the column get_missing names for an edit of column (0: none),
\* in the frame's input and off the offsets before the frame.
Record(op, column, changed, in) ==
    /\ events' = events + 1
    /\ pre' = app
    /\ LET f == get_missing(column, app.locked_column)
       IN  last' = [op |-> op, col |-> column,
                    free |-> IF f.ok THEN f.v ELSE 0, changed |-> changed,
                    in |-> in, off |-> offset]

Init ==
    /\ app = RitzelApp_new
    /\ offset = [c \in Columns |-> 0]
    /\ panicked = FALSE
    /\ events = 0
    /\ last = NoEvent
    /\ pre = RitzelApp_new

\* The frame's result r becomes the state.
Commit(op, column, in, r) ==
    /\ r.app.left.teeth < Saturated
    /\ r.app.right.teeth < Saturated
    /\ app' = r.app
    /\ offset' = r.offset
    /\ panicked' = r.panic
    /\ Record(op, column, r.changed, in)

\* One frame with input for one column.
Frame(op, column, in, click) ==
    /\ ~panicked
    /\ Commit(op, column, in, update(app, offset, column, in, click))

\* A scroll or drag over a column's spinner.
Scroll(column, delta) ==
    Frame("scroll", column, [NoInput EXCEPT !.delta = delta], FALSE)

\* Typing in a column's text field, which has the focus: no other field
\* holds unparsed text.  With lost, the same frame ends the editing.
Type(column, text, lost) ==
    /\ \A c \in Columns \ {column} : ~Pending(app, c)
    /\ Frame("type", column,
             [NoInput EXCEPT !.te_changed = TRUE, !.text = text,
                             !.lost_focus = lost], FALSE)

\* The field holding unparsed text loses the focus.
LoseFocus(column) ==
    /\ Pending(app, column)
    /\ Frame("blur", column, [NoInput EXCEPT !.lost_focus = TRUE], FALSE)

\* A click on a column's "locked" toggle.
ClickLocked(column) ==
    Frame("lock", column, NoInput, TRUE)

Next ==
    \/ \E c \in Columns, d \in Deltas : events < MaxEvents /\ Scroll(c, d)
    \/ \E c \in Columns, b \in BOOLEAN : \E t \in Texts(c) :
          events < MaxEvents /\ Type(c, t, b)
    \/ \E c \in Columns : events < MaxEvents /\ LoseFocus(c)
    \/ \E c \in Columns : events < MaxEvents /\ ClickLocked(c)

Spec == Init /\ [][Next]_vars

(***************************************************************************)
(* SpecCore: recompute_from called once, with any column, on any struct   *)
(* within the bounds.  The struct is as an edit leaves it: actual_ratio   *)
(* is the ratio of the counts or still the initial 1.5.                   *)
(***************************************************************************)
CoreApp(l, r, tenths, stale, locked) ==
    LET g  == Tenths(tenths)
        ar == IF stale THEN OnePointFive ELSE FDiv(FromU32(r), FromU32(l))
    IN  [left          |-> SideVars_new(l),
         right         |-> SideVars_new(r),
         given_ratio   |-> g,
         actual_ratio  |-> ar,
         ar_str        |-> FormatF32(ar, 3),
         gr_str        |-> FormatF32(g, 2),
         locked_column |-> locked]

InitCore ==
    /\ \E l \in 0..MaxCoreTeeth, r \in 0..MaxCoreTeeth, t \in 0..MaxCoreTenths,
          s \in BOOLEAN, c \in Columns :
          app = CoreApp(l, r, t, s, c)
    /\ offset = [c \in Columns |-> 0]
    /\ panicked = FALSE
    /\ events = 0
    /\ last = NoEvent
    /\ pre = app

CommitCall(column, r) ==
    /\ r.app.left.teeth < Saturated
    /\ r.app.right.teeth < Saturated
    /\ app' = r.app
    /\ panicked' = r.panic
    /\ Record("recompute", column, TRUE, NoInput)
    /\ UNCHANGED offset

CallRecompute(column) ==
    /\ events = 0
    /\ CommitCall(column, recompute_from(app, column))

NextCore == \E c \in Columns : CallRecompute(c)

SpecCore == InitCore /\ [][NextCore]_vars

(***************************************************************************)
(* SpecStep: one event in any state within the bounds.  Every such state  *)
(* is one the program reaches: with the lock on a gear the other gear     *)
(* and the ratio take any value, and actual_ratio follows the counts.     *)
(* At most one spinner holds a partial offset or an unparsed text.  The   *)
(* maxima of the spinners, 100000 teeth and 100.0, are among the values.  *)
(***************************************************************************)
StepApp(l, r, tenths, locked, pending) ==
    LET a == CoreApp(l, r, tenths, FALSE, locked)
    IN  IF pending = Left THEN [a EXCEPT !.left.t_str = <<"x">>]
        ELSE IF pending = Right THEN [a EXCEPT !.right.t_str = <<"x">>]
        ELSE IF pending = Ratio THEN [a EXCEPT !.gr_str = <<"x">>]
        ELSE a

StepTeeth == 0..MaxStepTeeth \cup {GearMax}

StepTenths == 0..MaxStepTenths \cup {1000}

InitStep ==
    /\ \E l \in StepTeeth, r \in StepTeeth, t \in StepTenths,
          c \in Columns, p \in Columns \cup {0}, oc \in Columns,
          o \in PartialOffsets \cup {0} :
          /\ p # 0 => o = 0
          /\ o = 0 => oc = Left
          /\ app = StepApp(l, r, t, c, p)
          /\ offset = [x \in Columns |-> IF x = oc THEN o ELSE 0]
    /\ panicked = FALSE
    /\ events = 0
    /\ last = NoEvent
    /\ pre = app

NextStep ==
    \/ \E c \in Columns, d \in Deltas : events = 0 /\ Scroll(c, d)
    \/ \E c \in Columns, b \in BOOLEAN : \E t \in Texts(c) :
          events = 0 /\ Type(c, t, b)
    \/ \E c \in Columns : events = 0 /\ LoseFocus(c)
    \/ \E c \in Columns : events = 0 /\ ClickLocked(c)

SpecStep == InitStep /\ [][NextStep]_vars

(***************************************************************************)
(* SpecDecrement: up to MaxDecrements downward scroll or drag gestures    *)
(* after RitzelApp::new and a choice of the locked column.                *)
(***************************************************************************)
MaxDecrements == 15

DecrementDeltas == {-45, -15}

InitDecrement ==
    /\ \E c \in Columns : app = [RitzelApp_new EXCEPT !.locked_column = c]
    /\ offset = [c \in Columns |-> 0]
    /\ panicked = FALSE
    /\ events = 0
    /\ last = NoEvent
    /\ pre = app

NextDecrement ==
    \E c \in Columns, d \in DecrementDeltas :
        events < MaxDecrements /\ Scroll(c, d)

SpecDecrement == InitDecrement /\ [][NextDecrement]_vars

(***************************************************************************)
(* Properties.                                                             *)
(***************************************************************************)
\* left_teeth >= 1, right_teeth >= 1, given_ratio > 0.
ValidApp(a) ==
    /\ a.left.teeth >= 1
    /\ a.right.teeth >= 1
    /\ FGt(a.given_ratio, FZero)

\* right_teeth / left_teeth in f32.
RatioOf(a) == FDiv(FromU32(a.right.teeth), FromU32(a.left.teeth))

\* A column's value.
SlotValue(a, column) ==
    IF column = Ratio THEN a.given_ratio ELSE TeethOf(a, column)

\* recompute_from has been called with an edited column other than the
\* locked one.
Recomputed == last.op = "recompute" /\ last.col # pre.locked_column

\* C1: after recompute_from(edited) on a valid struct, with edited other
\* than the locked column, actual_ratio equals right_teeth / left_teeth of
\* the counts after the call, whichever branch ran.
C1_ActualRatioIsQuotient ==
    (Recomputed /\ ValidApp(pre)) => FEq(app.actual_ratio, RatioOf(app))

C1_Witness ==
    /\ Recomputed /\ ValidApp(pre)
    /\ last.free = Right
    /\ app.right.teeth # pre.right.teeth
    /\ ~FEq(app.actual_ratio, pre.actual_ratio)
    /\ ~FEq(app.actual_ratio, app.given_ratio)

\* C2: in every state reached from RitzelApp::new by text edits, scroll and
\* drag gestures and lock changes, left_teeth >= 1, right_teeth >= 1 and
\* given_ratio > 0.
C2_ValuesStayValid == ValidApp(app)

\* C3: no event calls recompute_from with the locked column as the edited
\* one, so get_missing's assert_ne! never fails; and get_missing with two
\* equal columns fails instead of returning a column.
C3_EditedNeverLocked ==
    /\ ~panicked
    /\ last.changed => last.col # pre.locked_column
    /\ \A c \in Columns : ~get_missing(c, c).ok

C3_Witness ==
    /\ events = 1 /\ last.changed /\ ~panicked
    /\ last.op = "type"
    /\ pre.locked_column = Left /\ last.col = Right
    /\ \E c \in Columns : interactive(c, pre.locked_column) # TRUE

\* C4: an event leaves the value of the column that is locked when it
\* starts as it was: the locked column is neither edited nor recomputed.
C4_LockedValueFrozen ==
    events = 1 =>
        SlotValue(app, pre.locked_column) = SlotValue(pre, pre.locked_column)

C4_Witness ==
    /\ events = 1 /\ last.changed
    /\ pre.locked_column = Left /\ app.locked_column = Left
    /\ last.col = Ratio
    /\ app.given_ratio # pre.given_ratio
    /\ app.right.teeth # pre.right.teeth
    /\ app.left = pre.left

\* C5: a click on a "locked" toggle replaces locked_column only: the
\* counts, both ratios and all texts stay, and nothing is recomputed.
C5_LockChangesOnlyLock ==
    last.op = "lock" =>
        /\ app = [pre EXCEPT !.locked_column = last.col]
        /\ ~last.changed

C5_Witness ==
    /\ last.op = "lock"
    /\ app.locked_column # pre.locked_column
    /\ app.left.teeth = 3 /\ app.right.teeth = 2
    /\ ~FEq(RatioOf(app), app.given_ratio)

\* C6: recompute_from(edited) writes the free column's count and text and
\* actual_ratio (with its text) and nothing else; with the ratio free it
\* writes actual_ratio only.
C6_RecomputeFrame ==
    Recomputed =>
        [app EXCEPT !.actual_ratio = pre.actual_ratio,
                    !.ar_str = pre.ar_str,
                    !.left = IF last.free = Left THEN pre.left ELSE @,
                    !.right = IF last.free = Right THEN pre.right ELSE @]
            = pre

C6_Witness ==
    /\ Recomputed
    /\ last.free = Left
    /\ app.left.teeth # pre.left.teeth
    /\ app.actual_ratio # pre.actual_ratio

\* C7: for distinct columns get_missing returns the one column that is
\* neither argument, whatever the order of the arguments; the three pairs
\* give the three columns.
C7_GetMissing ==
    /\ Recomputed =>
           /\ last.free \in Columns \ {last.col, pre.locked_column}
           /\ get_missing(pre.locked_column, last.col) = Ok(last.free)
    /\ \A a \in Columns : \A b \in Columns \ {a} :
           /\ get_missing(a, b).ok
           /\ get_missing(a, b).v \in Columns \ {a, b}
           /\ get_missing(a, b) = get_missing(b, a)
    /\ get_missing(Left, Ratio) = Ok(Right)
    /\ get_missing(Left, Right) = Ok(Ratio)
    /\ get_missing(Ratio, Right) = Ok(Left)

C7_Witness ==
    /\ Recomputed
    /\ last.col = Ratio /\ pre.locked_column = Right
    /\ last.free = Left

\* k / 2, exact in f32.
Half(k) == FDiv(FromU32(k), FromU32(2))

\* n is the integer nearest to the finite x >= 0, a half rounded up (away
\* from zero).
NearestHalfAway(n, x) ==
    /\ x.k = "num"
    /\ \/ n = 0 /\ FGt(Half(1), x)
       \/ n >= 1 /\ FGe(x, Half(2 * n - 1)) /\ FGt(Half(2 * n + 1), x)

\* C8: with the right gear free, right_teeth becomes the f32 product
\* left_teeth * given_ratio rounded to the nearest integer, halves away
\* from zero, and actual_ratio is the quotient of the new counts.  From
\* (10, 15, 1.5, locked Ratio) left_teeth = 20 gives right_teeth = 30 and
\* actual_ratio = 1.5; with Left locked given_ratio = 2.0 gives
\* right_teeth = 2 * left_teeth and actual_ratio = 2.0.
C8_RightFree ==
    (Recomputed /\ last.free = Right) =>
        /\ NearestHalfAway(app.right.teeth,
                           FMul(FromU32(pre.left.teeth), pre.given_ratio))
        /\ app.actual_ratio = RatioOf(app)
        /\ (/\ pre.locked_column = Ratio /\ pre.left.teeth = 20
            /\ pre.given_ratio = OnePointFive)
           => (app.right.teeth = 30 /\ FEq(app.actual_ratio, OnePointFive))
        /\ (/\ pre.locked_column = Left /\ pre.left.teeth >= 1
            /\ pre.given_ratio = FromU32(2))
           => (/\ app.right.teeth = 2 * pre.left.teeth
               /\ FEq(app.actual_ratio, FromU32(2)))

C8_Witness ==
    /\ Recomputed /\ last.free = Right
    /\ pre.locked_column = Ratio /\ last.col = Left
    /\ pre.left.teeth = 20 /\ pre.right.teeth = 15
    /\ pre.given_ratio = OnePointFive /\ pre.actual_ratio = OnePointFive
    /\ app.right.teeth = 30

\* C9: a recomputed tooth count is at least 1, for every struct with both
\* counts >= 1 and 0.1 <= given_ratio <= 100.
C9_RecomputedTeethAtLeastOne ==
    (/\ Recomputed /\ last.free \in {Left, Right}
     /\ pre.left.teeth >= 1 /\ pre.right.teeth >= 1
     /\ FGe(pre.given_ratio, RatioMin) /\ FGe(RatioMax, pre.given_ratio))
    => TeethOf(app, last.free) >= 1

\* C10, as claimed: with Right locked and given_ratio = 1.5, left_teeth = 7
\* recomputes right_teeth to round(10.5) = 11 and actual_ratio to
\* right_teeth / 7.
C10_AsClaimed ==
    (/\ Recomputed /\ pre.locked_column = Right /\ last.col = Left
     /\ pre.left.teeth = 7 /\ pre.given_ratio = OnePointFive)
    => /\ app.right.teeth = 11
       /\ FEq(app.actual_ratio, FDiv(FromU32(11), FromU32(7)))

\* C10, amended: with Ratio locked and given_ratio = 1.5, left_teeth = 7
\* recomputes right_teeth to round(10.5) = 11 and actual_ratio to 11 / 7,
\* which is not 1.5; with Right locked the same edit leaves right_teeth as
\* it is and makes actual_ratio right_teeth / 7.
C10_RoundingDivergence ==
    (/\ Recomputed /\ last.col = Left
     /\ pre.left.teeth = 7 /\ pre.given_ratio = OnePointFive)
    => /\ pre.locked_column = Ratio =>
              /\ app.right.teeth = 11
              /\ FEq(app.actual_ratio, FDiv(FromU32(11), FromU32(7)))
              /\ ~FEq(app.actual_ratio, OnePointFive)
       /\ pre.locked_column = Right =>
              /\ app.right.teeth = pre.right.teeth
              /\ app.actual_ratio = FDiv(FromU32(pre.right.teeth), FromU32(7))

C10_Witness ==
    /\ Recomputed /\ last.col = Left /\ pre.locked_column = Ratio
    /\ pre.left.teeth = 7 /\ pre.given_ratio = OnePointFive
    /\ pre.right.teeth = 15
    /\ app.right.teeth = 11

\* C11: recompute_from(e), for e other than the locked column, called a
\* second time with no edit in between, gives the struct the first call
\* gave, actual_ratio included, and does not panic.
C11_RecomputeIdempotent ==
    Recomputed =>
        recompute_from(app, last.col) = [app |-> app, panic |-> FALSE]

C11_Witness ==
    /\ Recomputed
    /\ last.free = Right
    /\ app.right.teeth # pre.right.teeth
    /\ app.actual_ratio # pre.actual_ratio
    /\ app.given_ratio # FromU32(1)
    /\ recompute_from(app, last.col).app.actual_ratio = app.actual_ratio

\* The text does not parse as the column's number type.
Unparsed(column, text) ==
    IF column = Ratio THEN ~IsF32Text(text) ELSE ~IsU32Text(text)

\* The numbers of the struct and the lock, without the texts.
ValuesOf(a) ==
    <<a.left.teeth, a.right.teeth, a.given_ratio, a.actual_ratio,
      a.locked_column>>

\* The text of a column's field, and the column's value formatted as
\* number_spinner formats it.
TextOf(a, column) ==
    IF column = Ratio THEN a.gr_str ELSE SideOf(a, column).t_str

FormattedOf(a, column) ==
    IF column = Ratio THEN FormatF32(a.given_ratio, 2)
    ELSE U32ToString(TeethOf(a, column))

\* C12: a text edit whose text does not parse leaves both counts, both
\* ratios and the lock as they were and reports no change, so that
\* recompute_from is not called; when the field loses the focus with
\* such a text, the text becomes the formatted value and nothing else
\* changes.
C12_UnparsedEditIsInert ==
    /\ (last.op = "type" /\ Unparsed(last.col, last.in.text)) =>
           (ValuesOf(app) = ValuesOf(pre) /\ ~last.changed)
    /\ last.op = "blur" =>
           /\ ValuesOf(app) = ValuesOf(pre) /\ ~last.changed
           /\ TextOf(app, last.col) = FormattedOf(pre, last.col)

\* The column's value lies within the bounds its spinner is given.
InBounds(a, column) ==
    IF column = Ratio
    THEN FGe(a.given_ratio, RatioMin) /\ FGe(RatioMax, a.given_ratio)
    ELSE GearMin <= TeethOf(a, column) /\ TeethOf(a, column) <= GearMax

\* C13: the value a text edit stores, and passes to recompute_from, lies
\* within the field's bounds: teeth in 1..100000, given ratio in
\* [0.1, 100].
C13_TextEntryWithinBounds ==
    (last.op = "type" /\ last.changed) => InBounds(app, last.col)

\* C14: a downward scroll or drag on a field whose value is at least the
\* field's minimum leaves it at least the minimum (teeth >= 1, given
\* ratio >= 0.1), and leaves a value at the minimum as it is.
C14_DecrementKeepsMinimum ==
    (/\ last.op = "scroll" /\ last.in.delta < 0
     /\ last.col # pre.locked_column)
    => IF last.col = Ratio
       THEN /\ FGe(pre.given_ratio, RatioMin) => FGe(app.given_ratio, RatioMin)
            /\ pre.given_ratio = RatioMin => app.given_ratio = RatioMin
       ELSE /\ TeethOf(pre, last.col) >= GearMin
                   => TeethOf(app, last.col) >= GearMin
            /\ TeethOf(pre, last.col) = GearMin
                   => TeethOf(app, last.col) = GearMin

\* C15: with the left gear free and given_ratio > 0, left_teeth becomes
\* the f32 quotient right_teeth / given_ratio of the values as edited,
\* rounded to the nearest integer, halves away from zero; right_teeth and
\* given_ratio stay, and actual_ratio is the quotient of the new counts.
C15_LeftFree ==
    (Recomputed /\ last.free = Left /\ FGt(pre.given_ratio, FZero)) =>
        /\ NearestHalfAway(app.left.teeth,
                           FDiv(FromU32(pre.right.teeth), pre.given_ratio))
        /\ app.right = pre.right
        /\ app.given_ratio = pre.given_ratio
        /\ app.actual_ratio = RatioOf(app)

C15_Witness ==
    /\ Recomputed /\ last.free = Left
    /\ last.col = Right /\ pre.locked_column = Ratio
    /\ pre.right.teeth = 3 /\ pre.given_ratio = FromU32(2)
    /\ pre.left.teeth = 10
    /\ app.left.teeth = 2
    /\ app.actual_ratio = OnePointFive

\* The value one upward step gives, and the values one downward step may
\* give.
OneUp(a, column) ==
    IF column = Ratio
    THEN LET v == FAdd(a.given_ratio, RatioStep)
         IN  IF FGt(v, RatioMax) THEN RatioMax ELSE v
    ELSE IF TeethOf(a, column) + GearStep > GearMax THEN GearMax
         ELSE TeethOf(a, column) + GearStep

OneDown(a, column) ==
    IF column = Ratio
    THEN {a.given_ratio} \cup
         (IF FGe(a.given_ratio, RatioStep)
          THEN {FSub(a.given_ratio, RatioStep)} ELSE {})
    ELSE {TeethOf(a, column)} \cup
         (IF TeethOf(a, column) >= GearStep
          THEN {TeethOf(a, column) - GearStep} ELSE {})

\* C16: a scroll or drag on an interactive field adds its delta to that
\* field's offset.  If the sum is above 20 the value takes one upward
\* step, clamped to the maximum, and the offset becomes 0; if it is
\* below -20 the value takes at most one downward step and the offset
\* becomes 0; otherwise the offset keeps the sum and the value stays.
\* The other fields' offsets stay, and a gesture on the locked field
\* changes neither offsets nor the struct.
C16_OffsetAccumulates ==
    last.op = "scroll" =>
        LET c == last.col
            o == last.off[c] + last.in.delta
        IN  IF c = pre.locked_column
            THEN offset = last.off /\ app = pre /\ ~last.changed
            ELSE /\ \A x \in Columns \ {c} : offset[x] = last.off[x]
                 /\ o > StepThreshold =>
                        /\ offset[c] = 0
                        /\ SlotValue(app, c) = OneUp(pre, c)
                 /\ o < -StepThreshold =>
                        /\ offset[c] = 0
                        /\ SlotValue(app, c) \in OneDown(pre, c)
                 /\ (o <= StepThreshold /\ o >= -StepThreshold) =>
                        /\ offset[c] = o
                        /\ ~last.changed
                        /\ app = pre

C16_Witness ==
    /\ last.op = "scroll" /\ last.col = Left /\ pre.locked_column = Ratio
    /\ last.off[Left] = 15 /\ last.in.delta = 15
    /\ offset[Left] = 0
    /\ pre.left.teeth = 2 /\ app.left.teeth = 3

\* The text denotes the f32: it is the value formatted with p decimals,
\* or it parses to the value.
DenotesF32(text, value, p) ==
    text = FormatF32(value, p) \/ ParseF32(text) = Ok(value)

\* Each field's text denotes the field's value, unless the text does not
\* parse and is still being edited.
InSync(a) ==
    /\ Pending(a, Left) \/ ParseU32(a.left.t_str) = Ok(a.left.teeth)
    /\ Pending(a, Right) \/ ParseU32(a.right.t_str) = Ok(a.right.teeth)
    /\ Pending(a, Ratio) \/ DenotesF32(a.gr_str, a.given_ratio, 2)
    /\ DenotesF32(a.ar_str, a.actual_ratio, 3)

\* C17: after an event each field's text denotes its value, unless
\* unparsable text is pending in it; a step that changes a field's value
\* leaves the field's text as the formatted new value, and so does a
\* recompute that changes the free count or actual_ratio.
C17_TextInSync ==
    events = 1 =>
        /\ InSync(app)
        /\ (/\ last.op = "scroll"
            /\ SlotValue(app, last.col) # SlotValue(pre, last.col))
           => TextOf(app, last.col) = FormattedOf(app, last.col)
        /\ (/\ last.changed /\ last.free \in {Left, Right}
            /\ TeethOf(app, last.free) # TeethOf(pre, last.free))
           => TextOf(app, last.free) = FormattedOf(app, last.free)
        /\ app.actual_ratio # pre.actual_ratio
           => app.ar_str = FormatF32(app.actual_ratio, 3)

C17_Witness ==
    /\ events = 1 /\ last.op = "scroll" /\ last.col = Left
    /\ pre.locked_column = Ratio
    /\ pre.left.t_str = <<"x">>
    /\ pre.left.teeth = 3 /\ app.left.teeth = 2
    /\ app.left.t_str = <<"2">>
    /\ app.right.teeth # pre.right.teeth
    /\ app.ar_str # pre.ar_str

\* C18: actual_ratio is right_teeth / left_teeth in the struct
\* RitzelApp::new builds and, with left_teeth nonzero, after every event;
\* an event that changes a count or the given ratio reports the change,
\* so that recompute_from runs in the same frame.
C18_ActualRatioNeverStale ==
    /\ RitzelApp_new.actual_ratio = RatioOf(RitzelApp_new)
    /\ events = 1 =>
           /\ app.left.teeth # 0 => app.actual_ratio = RatioOf(app)
           /\ (\E c \in Columns : SlotValue(app, c) # SlotValue(pre, c))
                  => last.changed

C18_Witness ==
    /\ events = 1 /\ last.op = "type" /\ last.col = Right
    /\ pre.locked_column = Left /\ last.free = Ratio
    /\ pre.right.teeth = 3 /\ app.right.teeth = 7 /\ app.left.teeth = 2
    /\ app.given_ratio = pre.given_ratio
    /\ app.actual_ratio # pre.actual_ratio
    /\ app.actual_ratio = Half(7)

\* Both counts >= 1 and 0.1 <= given_ratio <= 100.
ValidInputs(a) ==
    /\ a.left.teeth >= 1
    /\ a.right.teeth >= 1
    /\ FGe(a.given_ratio, RatioMin) /\ FGe(RatioMax, a.given_ratio)

\* C19: in a state with both counts >= 1 and the given ratio within its
\* bounds, a step gesture that leaves the edited field's value as it was
\* (a decrement at the minimum, an increment at the maximum) leaves both
\* counts, both ratios and the lock as they were.
C19_NoOpStepIsInert ==
    (/\ last.op = "scroll" /\ last.changed /\ ValidInputs(pre)
     /\ SlotValue(app, last.col) = SlotValue(pre, last.col))
    => ValuesOf(app) = ValuesOf(pre)

\* |a - b| in f32.
AbsDiff(a, b) == IF FGe(a, b) THEN FSub(a, b) ELSE FSub(b, a)

\* |r / l - g| in f32, for l >= 1.
RatioError(l, r, g) == AbsDiff(FDiv(FromU32(r), FromU32(l)), g)

\* The ratio error with m teeth on the free gear of the last call.
FreeError(m) ==
    IF last.free = Left
    THEN RatioError(m, pre.right.teeth, pre.given_ratio)
    ELSE RatioError(pre.left.teeth, m, pre.given_ratio)

\* C20, as claimed: a recomputed tooth count is positive, and no other
\* positive count gives a strictly smaller |right / left - given_ratio|.
C20_AsClaimed ==
    (Recomputed /\ last.free \in {Left, Right} /\ ValidInputs(pre)) =>
        LET n == TeethOf(app, last.free)
        IN  /\ n >= 1
            /\ \A m \in {n - 1, n + 1} \cap (1..(n + 1)) :
                   ~FGt(FreeError(n), FreeError(m))

\* C20, amended: a recomputed tooth count is the integer nearest to the
\* f32 product left_teeth * given_ratio (right gear free) or to the f32
\* quotient right_teeth / given_ratio (left gear free), halves away from
\* zero.  It can be 0 (left_teeth = 4, given_ratio = 0.1), and with the
\* left gear free it need not be the count whose ratio is closest to
\* given_ratio: right_teeth = 3 and given_ratio = 2.2 give left_teeth = 1
\* with |3/1 - 2.2| = 0.8, where 2 teeth give |3/2 - 2.2| = 0.7.
C20_NearestToQuotient ==
    (Recomputed /\ last.free \in {Left, Right} /\ ValidInputs(pre)) =>
        /\ NearestHalfAway(TeethOf(app, last.free),
               IF last.free = Left
               THEN FDiv(FromU32(pre.right.teeth), pre.given_ratio)
               ELSE FMul(FromU32(pre.left.teeth), pre.given_ratio))
        /\ (/\ last.free = Right /\ pre.left.teeth = 4
            /\ pre.given_ratio = Tenths(1))
           => app.right.teeth = 0
        /\ (/\ last.free = Left /\ pre.right.teeth = 3
            /\ pre.given_ratio = Tenths(22))
           => /\ app.left.teeth = 1
              /\ FGt(FreeError(1), FreeError(2))

C20_Witness ==
    /\ Recomputed /\ last.free = Left /\ ValidInputs(pre)
    /\ pre.right.teeth = 3 /\ pre.given_ratio = Tenths(22)
    /\ pre.left.teeth = 2
    /\ app.left.teeth = 1
    /\ app.actual_ratio = FromU32(3)

====
